---- MODULE Spec2Model ----
(***************************************************************************)
(* The session orchestration core of the hybrid realtime bridge            *)
(* (src/realtime-hybrid.js): the transcription handler, one response cycle *)
(* of handleUserSpeech with its tool handlers, speech synthesis, the       *)
(* search and summary requests, and the forced-exit timer.                 *)
(*                                                                         *)
(* One action is one run of the event loop from a callback or the          *)
(* resolution of an awaited promise to the next await.  The tool loop      *)
(* takes one step per tool call; the steps of one synchronous run are      *)
(* chained by pc = "tools", where no callback of the event loop (a         *)
(* transcription event, a timer) can come in between.                      *)
(*                                                                         *)
(* event, out and pre are observations: the event the last step handled,   *)
(* what it emitted, and the values it found.  The other variables are the  *)
(* state of the program and of its environment.                            *)
(***************************************************************************)
EXTENDS Integers, Sequences, FiniteSets, TLC

\* Number of transcription.completed events delivered in a behaviour.
MaxUtterances == 2
\* The same, for the behaviours long enough to fill the history.
MaxLongUtterances == 3
\* Length of the tool_calls list of one generation result.
MaxToolCalls == 2
\* conversationHistory.length > 20 => slice(-20)
HistoryLimit == 20

ToolNames ==
    {"leave_meeting", "mute_self", "unmute_self", "pause_listening",
     "resume_listening", "web_search", "unknown_tool"}

\* toolCall.function.arguments of a web_search call: a JSON text with a query,
\* one without a query (or no arguments at all), or a text JSON.parse rejects.
SearchArgs == {"query", "noquery", "badjson"}

ToolCalls ==
    {[name |-> n, args |-> "none"] : n \in ToolNames \ {"web_search"}}
        \cup {[name |-> "web_search", args |-> a] : a \in SearchArgs}

ToolCallLists == UNION {[1..n -> ToolCalls] : n \in 0..MaxToolCalls}

\* What generateResponse resolves with: message.tool_calls, and whether
\* message.content is a non-empty string.
Results == [tool_calls : ToolCallLists, content : BOOLEAN]

NoResult == [tool_calls |-> <<>>, content |-> FALSE]

\* The texts speakElevenLabs is called with, by call site.
SpeechKinds ==
    {"leave_ack", "pause_ack", "resume_ack", "nokey_apology", "empty_apology",
     "summary", "fail_apology", "content"}

VARIABLES
    conversationHistory,    \* sequence of [role, kind, utt]
    isProcessingResponse,
    isMuted,
    isPaused,
    exaKeySet,              \* EXA_API_KEY is set in the environment
    pc,                     \* where the running cycle is suspended
    transcript,             \* the utterance the running cycle handles (0: none)
    result,                 \* the generation result of the running cycle
    toolIdx,                \* tool calls of result already dispatched
    speaking,               \* the text being synthesized / played, or "none"
    event,                  \* the event the last step handled: <<name, input>>
    out,                    \* the signals and synthesis requests it issued
    pre,                    \* the session and the cycle as that step found them
    nUtter,                 \* transcription.completed events received so far
    leaveTimers,            \* forced-exit timers armed
    exited,                 \* process.exit was called
    spoken,                 \* speakElevenLabs requests of the running cycle
    searchCall,             \* a web_search call's count and the service's answer
    searchRet,              \* what searchExa sent and resolved with
    wsState,                \* the WebSocket: connecting, open, closing, closed
    configSent,             \* session.update has been sent
    captures,               \* parec processes started by startAudioCapture
    chunksSent,             \* input_audio_buffer.append messages sent
    pendingSearches,        \* the keys of the pendingSearches map
    searchTimers,           \* identifiers whose timeout is armed
    settled,                \* per identifier: how its promise was settled
    ttsText,                \* a text handed to expandAbbreviations
    ttsSent,                \* the processedText of the synthesis request
    audioQueue,             \* native bridge: buffers queued for playback
    isPlaying,              \* native bridge: the playback guard
    paplay                  \* native bridge: the paplay processes spawned

session == <<conversationHistory, isMuted, isPaused>>
cycle ==
    <<isProcessingResponse, pc, transcript, result, toolIdx, speaking, spoken>>
search == <<searchCall, searchRet>>
stream == <<wsState, configSent, captures, chunksSent>>
pending == <<pendingSearches, searchTimers, settled>>
tts == <<ttsText, ttsSent>>
playback == <<audioQueue, isPlaying, paplay>>
\* what the steps of a response cycle do not touch
aside == <<search, stream, pending, tts, playback>>
vars ==
    <<conversationHistory, isProcessingResponse, isMuted, isPaused, exaKeySet,
      pc, transcript, result, toolIdx, speaking, event, out, pre, nUtter,
      leaveTimers, exited, spoken, searchCall, searchRet, wsState, configSent,
      captures, chunksSent, pendingSearches, searchTimers, settled, ttsText,
      ttsSent, audioQueue, isPlaying, paplay>>

\* what a step finds: the values `pre` keeps for the next state
Snapshot ==
    [hist |-> conversationHistory, muted |-> isMuted, paused |-> isPaused,
     busy |-> isProcessingResponse, pc |-> pc, transcript |-> transcript,
     result |-> result, toolIdx |-> toolIdx, speaking |-> speaking,
     timers |-> leaveTimers, spoken |-> spoken, ws |-> wsState,
     chunks |-> chunksSent, pend |-> pendingSearches, sett |-> settled]

Turn(role, kind, utt) == [role |-> role, kind |-> kind, utt |-> utt]

Signal(name) == <<"SIGNAL", name>>
Tts(kind) == <<"TTS", kind>>
Dropped == <<"LOG", "still_processing">>

\* a truncation keeping the oldest n entries
SliceFirst(h, n) ==
    IF Len(h) > n THEN SubSeq(h, 1, n) ELSE h

\* conversationHistory.slice(-n)
SliceLast(h, n) ==
    IF Len(h) > n THEN SubSeq(h, Len(h) - n + 1, Len(h)) ELSE h

\* push the user turn, then keep the last HistoryLimit entries
PushUser(h, utt) ==
    LET pushed == Append(h, Turn("user", "utterance", utt))
    IN  IF Len(pushed) > HistoryLimit THEN SliceLast(pushed, HistoryLimit)
        ELSE pushed

\* no web_search call is being followed
NoSearchCall == [given |-> FALSE, count |-> 0, available |-> 0]
NoSearchRet == [done |-> FALSE, numResults |-> 0, returned |-> 0]

\* the session idle, with h the history so far
Idle(h) ==
    /\ conversationHistory = h
    /\ isProcessingResponse = FALSE
    /\ isMuted = FALSE
    /\ isPaused = FALSE
    /\ exaKeySet \in BOOLEAN
    /\ pc = "idle"
    /\ transcript = 0
    /\ result = NoResult
    /\ toolIdx = 0
    /\ speaking = "none"
    /\ event = <<"start", "">>
    /\ out = <<>>
    /\ pre = [hist |-> h, muted |-> FALSE, paused |-> FALSE, busy |-> FALSE,
              pc |-> "idle", transcript |-> 0, result |-> NoResult,
              toolIdx |-> 0, speaking |-> "none", timers |-> 0, spoken |-> 0,
              ws |-> wsState, chunks |-> 0, pend |-> {}, sett |-> settled]
    /\ nUtter = 0
    /\ leaveTimers = 0
    /\ exited = FALSE
    /\ spoken = 0

\* the session once the script has started: let conversationHistory = []
Start == Idle(<<>>)

\* no search count is being followed
SearchIdle ==
    /\ searchCall = NoSearchCall
    /\ searchRet = NoSearchRet

\* the connection is open and configured, one parec is capturing
Streaming ==
    /\ wsState = "open"
    /\ configSent = TRUE
    /\ captures = 1
    /\ chunksSent = 0

\* const pendingSearches = new Map()
PendingIdle ==
    /\ pendingSearches = {}
    /\ searchTimers = {}
    /\ settled = <<>>

TtsIdle ==
    /\ ttsText = <<>>
    /\ ttsSent = <<>>

\* let audioQueue = []; let isPlaying = false
PlaybackIdle ==
    /\ audioQueue = <<>>
    /\ isPlaying = FALSE
    /\ paplay = <<>>

\* the session listening, before the first utterance
Init ==
    /\ Streaming
    /\ PendingIdle
    /\ Start
    /\ SearchIdle
    /\ TtsIdle
    /\ PlaybackIdle

----------------------------------------------------------------------------
\* Control transfers of the running cycle.

\* control is back in the for-loop of handleUserSpeech
Resume(idx, o) ==
    /\ pc' = "tools"
    /\ speaking' = "none"
    /\ toolIdx' = idx
    /\ out' = o
    /\ UNCHANGED <<isProcessingResponse, transcript, result, spoken>>

\* the cycle is suspended on an HTTP request (searchExa, generateResponse)
Await(p, idx, o) ==
    /\ pc' = p
    /\ speaking' = "none"
    /\ toolIdx' = idx
    /\ out' = o
    /\ UNCHANGED <<isProcessingResponse, transcript, result, spoken>>

\* the continuation of the cycle is not running or queued: a callback can run
Yielded == pc # "tools"

\* speakElevenLabs returns at once when muted; otherwise it issues the request
speakElevenLabs == ~isMuted

\* speakElevenLabs(kind) called without `await`: the request goes out and
\* control returns to the loop at once
AwaitSpeakDetached(kind, idx, o) ==
    /\ pc' = "tools"
    /\ speaking' = kind
    /\ toolIdx' = idx
    /\ out' = Append(o, Tts(kind))
    /\ spoken' = spoken + 1
    /\ UNCHANGED <<isProcessingResponse, transcript, result>>

\* the cycle is suspended on speakElevenLabs(kind)
AwaitSpeak(kind, idx, o) ==
    /\ pc' = "speak"
    /\ speaking' = kind
    /\ toolIdx' = idx
    /\ out' = Append(o, Tts(kind))
    /\ spoken' = spoken + 1
    /\ UNCHANGED <<isProcessingResponse, transcript, result>>

\* the acknowledgement spoken with no isMuted test at the call or in the callee
SpeakThenResumeUnchecked(kind, idx, o) == AwaitSpeak(kind, idx, o)

\* `if (!isMuted) await speakElevenLabs(kind)`, then back to the tool loop
SpeakThenResume(kind, idx, o) ==
    IF ~isMuted /\ speakElevenLabs THEN AwaitSpeak(kind, idx, o)
    ELSE Resume(idx, o)

\* a cycle end that leaves isProcessingResponse set
FinallyKeepsFlag(o) ==
    /\ UNCHANGED isProcessingResponse
    /\ pc' = "idle"
    /\ speaking' = "none"
    /\ toolIdx' = 0
    /\ transcript' = 0
    /\ result' = NoResult
    /\ spoken' = 0
    /\ out' = o

\* the finally block of handleUserSpeech
Finally(o) ==
    /\ isProcessingResponse' = FALSE
    /\ pc' = "idle"
    /\ speaking' = "none"
    /\ toolIdx' = 0
    /\ transcript' = 0
    /\ result' = NoResult
    /\ spoken' = 0
    /\ out' = o

\* leave_meeting signalling and pausing without the setTimeout
LeaveSignalNoTimer(idx, o) ==
    /\ isPaused' = TRUE
    /\ UNCHANGED leaveTimers
    /\ Resume(idx, Append(o, Signal("LEAVE_MEETING")))

\* leave_meeting signalling and arming the timer without `isPaused = true`
LeaveSignalKeepsListening(idx, o) ==
    /\ UNCHANGED isPaused
    /\ leaveTimers' = leaveTimers + 1
    /\ Resume(idx, Append(o, Signal("LEAVE_MEETING")))

\* leave_meeting, after the acknowledgement: signal, pause, arm the timer
LeaveSignal(idx, o) ==
    /\ isPaused' = TRUE
    /\ leaveTimers' = leaveTimers + 1
    /\ Resume(idx, Append(o, Signal("LEAVE_MEETING")))

\* the catch block of web_search
SearchCatch(idx, o) == SpeakThenResume("fail_apology", idx, o)

----------------------------------------------------------------------------
\* The transcription handler and the start of a cycle.

\* handleUserSpeech without its isProcessingResponse guard
handleUserSpeechUnguarded(utt) ==
    /\ isProcessingResponse' = TRUE
    /\ conversationHistory' = PushUser(conversationHistory, utt)
    /\ pc' = "generate"
    /\ transcript' = utt
    /\ out' = <<>>
    /\ UNCHANGED <<isMuted, isPaused, result, toolIdx, speaking, spoken>>

\* handleUserSpeech(transcript) up to `await generateResponse()`
handleUserSpeech(utt) ==
    IF isProcessingResponse
    THEN /\ out' = <<Dropped>>
         /\ UNCHANGED <<session, cycle>>
    ELSE /\ isProcessingResponse' = TRUE
         /\ conversationHistory' = PushUser(conversationHistory, utt)
         /\ pc' = "generate"
         /\ transcript' = utt
         /\ out' = <<>>
         /\ UNCHANGED <<isMuted, isPaused, result, toolIdx, speaking, spoken>>

\* the transcription handler without `&& !isPaused`
TranscriptionIgnoringPause(max, blank) ==
    /\ ~exited
    /\ Yielded
    /\ wsState = "open"
    /\ nUtter < max
    /\ nUtter' = nUtter + 1
    /\ event' = <<"transcription", IF blank THEN "blank" ELSE "text">>
    /\ pre' = Snapshot
    /\ UNCHANGED aside
    /\ IF ~blank
       THEN handleUserSpeech(nUtter + 1)
       ELSE /\ out' = <<>>
            /\ UNCHANGED <<session, cycle>>
    /\ UNCHANGED <<exaKeySet, leaveTimers, exited>>

\* ws.on('message'), case conversation.item.input_audio_transcription.completed;
\* blank: event.transcript is empty or only whitespace
Transcription(max, blank) ==
    /\ ~exited
    /\ Yielded
    /\ wsState = "open"
    /\ nUtter < max
    /\ nUtter' = nUtter + 1
    /\ event' = <<"transcription", IF blank THEN "blank" ELSE "text">>
    /\ pre' = Snapshot
    /\ UNCHANGED aside
    /\ IF ~blank /\ ~isPaused
       THEN handleUserSpeech(nUtter + 1)
       ELSE /\ out' = <<>>
            /\ UNCHANGED <<session, cycle>>
    /\ UNCHANGED <<exaKeySet, leaveTimers, exited>>

OnTranscription(blank) == Transcription(MaxUtterances, blank)

LongTranscription(blank) == Transcription(MaxLongUtterances, blank)

\* generateResponse resolves (line 291)
GenerateResolves(r) ==
    /\ ~exited
    /\ pc = "generate"
    /\ event' = <<"generate_resolved", "">>
    /\ pre' = Snapshot
    /\ UNCHANGED aside
    /\ result' = r
    /\ pc' = "tools"
    /\ toolIdx' = 0
    /\ out' = <<>>
    /\ UNCHANGED <<session, isProcessingResponse, transcript, speaking,
                   spoken, exaKeySet, nUtter, leaveTimers, exited>>

\* the rejection of generateResponse left unhandled: the process dies
GenerateRejectsUncaught ==
    /\ ~exited
    /\ pc = "generate"
    /\ event' = <<"generate_rejected", "">>
    /\ pre' = Snapshot
    /\ UNCHANGED aside
    /\ exited' = TRUE
    /\ out' = <<>>
    /\ UNCHANGED <<session, cycle, exaKeySet, nUtter, leaveTimers>>

\* generateResponse rejects: network error, unparsable body, no choices
GenerateRejects ==
    /\ ~exited
    /\ pc = "generate"
    /\ event' = <<"generate_rejected", "">>
    /\ pre' = Snapshot
    /\ UNCHANGED aside
    /\ Finally(<<>>)
    /\ UNCHANGED <<session, exaKeySet, nUtter, leaveTimers, exited>>

----------------------------------------------------------------------------
\* The tool handlers of handleToolCall, each up to its first await.
\* idx: the loop position after this call; log: the lines printed so far.

\* leave_meeting signalling and arming the timer before the acknowledgement
LeaveMeetingSignalFirst(idx, log) ==
    /\ UNCHANGED <<conversationHistory, isMuted>>
    /\ isPaused' = TRUE
    /\ leaveTimers' = leaveTimers + 1
    /\ SpeakThenResume("leave_ack", idx, Append(log, Signal("LEAVE_MEETING")))

LeaveMeeting(idx, log) ==
    /\ UNCHANGED <<conversationHistory, isMuted>>
    /\ IF ~isMuted /\ speakElevenLabs
       THEN /\ AwaitSpeak("leave_ack", idx, log)
            /\ UNCHANGED <<isPaused, leaveTimers>>
       ELSE LeaveSignal(idx, log)

\* mute_self without its `if (isMuted) return`
MuteSelfUnguarded(idx, log) ==
    /\ UNCHANGED <<conversationHistory, isPaused, leaveTimers>>
    /\ isMuted' = TRUE
    /\ Resume(idx, Append(log, Signal("MUTED")))

MuteSelf(idx, log) ==
    /\ UNCHANGED <<conversationHistory, isPaused, leaveTimers>>
    /\ IF isMuted
       THEN /\ UNCHANGED isMuted
            /\ Resume(idx, log)
       ELSE /\ isMuted' = TRUE
            /\ Resume(idx, Append(log, Signal("MUTED")))

UnmuteSelf(idx, log) ==
    /\ UNCHANGED <<conversationHistory, isPaused, leaveTimers>>
    /\ IF ~isMuted
       THEN /\ UNCHANGED isMuted
            /\ Resume(idx, log)
       ELSE /\ isMuted' = FALSE
            /\ Resume(idx, Append(log, Signal("UNMUTED")))

\* pause_listening flipping the flag instead of setting it
PauseListeningToggles(idx, log) ==
    /\ isPaused' = ~isPaused
    /\ UNCHANGED <<conversationHistory, isMuted, leaveTimers>>
    /\ SpeakThenResume("pause_ack", idx, Append(log, Signal("PAUSED")))

PauseListening(idx, log) ==
    /\ isPaused' = TRUE
    /\ UNCHANGED <<conversationHistory, isMuted, leaveTimers>>
    /\ SpeakThenResume("pause_ack", idx, Append(log, Signal("PAUSED")))

\* resume_listening clearing isMuted as well
ResumeListeningUnmutes(idx, log) ==
    /\ isPaused' = FALSE
    /\ isMuted' = FALSE
    /\ UNCHANGED <<conversationHistory, leaveTimers>>
    /\ SpeakThenResume("resume_ack", idx, Append(log, Signal("RESUMED")))

ResumeListening(idx, log) ==
    /\ isPaused' = FALSE
    /\ UNCHANGED <<conversationHistory, isMuted, leaveTimers>>
    /\ SpeakThenResume("resume_ack", idx, Append(log, Signal("RESUMED")))

\* web_search without the `if (!EXA_API_KEY)` branch
WebSearchNoKeyCheck(args, idx, log) ==
    /\ UNCHANGED <<session, leaveTimers>>
    /\ CASE args = "badjson" -> SearchCatch(idx, log)
         [] args = "noquery" -> Resume(idx, log)
         [] OTHER -> Await("search", idx, log)

WebSearch(args, idx, log) ==
    /\ UNCHANGED <<session, leaveTimers>>
    /\ CASE args = "badjson" -> SearchCatch(idx, log)
         [] args = "noquery" -> Resume(idx, log)
         [] args = "query" /\ ~exaKeySet ->
                SpeakThenResume("nokey_apology", idx, log)
         [] OTHER -> Await("search", idx, log)

\* the default case throwing instead of logging
UnknownToolThrows(idx, log) ==
    /\ UNCHANGED <<session, leaveTimers>>
    /\ Finally(log)

UnknownTool(idx, log) ==
    /\ UNCHANGED <<session, leaveTimers>>
    /\ Resume(idx, log)

\* the loop calling handleToolCall without `await`: the next call starts while
\* the request of the one before is in flight
HandleToolCallNoAwait ==
    /\ ~exited
    /\ pc \in {"tools", "speak", "search", "summarize"}
    /\ toolIdx < Len(result.tool_calls)
    /\ LET tc == result.tool_calls[toolIdx + 1]
           idx == toolIdx + 1
           log == <<>>
       IN  /\ event' = <<"tool", tc.name>>
           /\ pre' = Snapshot
           /\ UNCHANGED aside
           /\ CASE tc.name = "leave_meeting" -> LeaveMeeting(idx, log)
                [] tc.name = "mute_self" -> MuteSelf(idx, log)
                [] tc.name = "unmute_self" -> UnmuteSelf(idx, log)
                [] tc.name = "pause_listening" -> PauseListening(idx, log)
                [] tc.name = "resume_listening" -> ResumeListening(idx, log)
                [] tc.name = "web_search" -> WebSearch(tc.args, idx, log)
                [] OTHER -> UnknownTool(idx, log)
    /\ UNCHANGED <<exaKeySet, nUtter, exited>>

\* one iteration of `for (const toolCall of result.tool_calls)`
HandleToolCall ==
    /\ ~exited
    /\ pc = "tools"
    /\ toolIdx < Len(result.tool_calls)
    /\ LET tc == result.tool_calls[toolIdx + 1]
           idx == toolIdx + 1
           log == <<>>
       IN  /\ event' = <<"tool", tc.name>>
           /\ pre' = Snapshot
           /\ UNCHANGED aside
           /\ CASE tc.name = "leave_meeting" -> LeaveMeeting(idx, log)
                [] tc.name = "mute_self" -> MuteSelf(idx, log)
                [] tc.name = "unmute_self" -> UnmuteSelf(idx, log)
                [] tc.name = "pause_listening" -> PauseListening(idx, log)
                [] tc.name = "resume_listening" -> ResumeListening(idx, log)
                [] tc.name = "web_search" -> WebSearch(tc.args, idx, log)
                [] OTHER -> UnknownTool(idx, log)
    /\ UNCHANGED <<exaKeySet, nUtter, exited>>

\* the content spoken whether muted or not
SpeakContentWhenMuted ==
    /\ ~exited
    /\ pc = "tools"
    /\ toolIdx = Len(result.tool_calls)
    /\ event' = <<"after_tools", IF result.content THEN "content" ELSE "none">>
    /\ pre' = Snapshot
    /\ UNCHANGED aside
    /\ IF result.content
       THEN /\ conversationHistory' =
                   Append(conversationHistory,
                          Turn("assistant", "reply", transcript))
            /\ AwaitSpeak("content", toolIdx, <<>>)
       ELSE /\ UNCHANGED conversationHistory
            /\ Finally(<<>>)
    /\ UNCHANGED <<isMuted, isPaused, exaKeySet, nUtter, leaveTimers, exited>>

\* the content pushed to the history before the isMuted test
SpeakContentRecordsMuted ==
    /\ ~exited
    /\ pc = "tools"
    /\ toolIdx = Len(result.tool_calls)
    /\ event' = <<"after_tools", IF result.content THEN "content" ELSE "none">>
    /\ pre' = Snapshot
    /\ UNCHANGED aside
    /\ IF result.content
       THEN /\ conversationHistory' =
                   Append(conversationHistory,
                          Turn("assistant", "reply", transcript))
            /\ IF ~isMuted /\ speakElevenLabs
               THEN AwaitSpeak("content", toolIdx, <<>>)
               ELSE Finally(<<>>)
       ELSE /\ UNCHANGED conversationHistory
            /\ Finally(<<>>)
    /\ UNCHANGED <<isMuted, isPaused, exaKeySet, nUtter, leaveTimers, exited>>

\* the content spoken without `await`: the finally block runs while the
\* request is in flight
SpeakContentDetached ==
    /\ ~exited
    /\ pc = "tools"
    /\ toolIdx = Len(result.tool_calls)
    /\ event' = <<"after_tools", IF result.content THEN "content" ELSE "none">>
    /\ pre' = Snapshot
    /\ UNCHANGED aside
    /\ IF result.content /\ ~isMuted
       THEN /\ conversationHistory' =
                   Append(conversationHistory,
                          Turn("assistant", "reply", transcript))
            /\ isProcessingResponse' = FALSE
            /\ pc' = "idle"
            /\ speaking' = "content"
            /\ toolIdx' = 0
            /\ transcript' = 0
            /\ result' = NoResult
            /\ spoken' = 0
            /\ out' = <<Tts("content")>>
       ELSE /\ UNCHANGED conversationHistory
            /\ Finally(<<>>)
    /\ UNCHANGED <<isMuted, isPaused, exaKeySet, nUtter, leaveTimers, exited>>

\* after the loop: speak the content if there is one and we're not muted
SpeakContent ==
    /\ ~exited
    /\ pc = "tools"
    /\ toolIdx = Len(result.tool_calls)
    /\ event' = <<"after_tools", IF result.content THEN "content" ELSE "none">>
    /\ pre' = Snapshot
    /\ UNCHANGED aside
    /\ IF result.content /\ ~isMuted
       THEN /\ conversationHistory' =
                   Append(conversationHistory,
                          Turn("assistant", "reply", transcript))
            /\ IF speakElevenLabs
               THEN AwaitSpeak("content", toolIdx, <<>>)
               ELSE Finally(<<>>)
       ELSE /\ UNCHANGED conversationHistory
            /\ Finally(<<>>)
    /\ UNCHANGED <<isMuted, isPaused, exaKeySet, nUtter, leaveTimers, exited>>

----------------------------------------------------------------------------
\* Resolutions of the requests a tool handler awaits.

\* web_search without the empty-results branch
SearchResolvesSummarizesEmpty(empty) ==
    /\ ~exited
    /\ pc = "search"
    /\ event' = <<"search_resolved", IF empty THEN "empty" ELSE "results">>
    /\ pre' = Snapshot
    /\ UNCHANGED aside
    /\ conversationHistory' =
           conversationHistory
               \o <<Turn("assistant", "marker", transcript),
                    Turn("system", "results", transcript)>>
    /\ Await("summarize", toolIdx, <<>>)
    /\ UNCHANGED <<isMuted, isPaused, exaKeySet, nUtter, leaveTimers, exited>>

\* searchExa resolves; empty: the result list is empty
SearchResolves(empty) ==
    /\ ~exited
    /\ pc = "search"
    /\ event' = <<"search_resolved", IF empty THEN "empty" ELSE "results">>
    /\ pre' = Snapshot
    /\ UNCHANGED aside
    /\ IF empty
       THEN /\ UNCHANGED conversationHistory
            /\ SpeakThenResume("empty_apology", toolIdx, <<>>)
       ELSE /\ conversationHistory' =
                   conversationHistory
                       \o <<Turn("assistant", "marker", transcript),
                            Turn("system", "results", transcript)>>
            /\ Await("summarize", toolIdx, <<>>)
    /\ UNCHANGED <<isMuted, isPaused, exaKeySet, nUtter, leaveTimers, exited>>

\* web_search without its try/catch: the rejection reaches handleUserSpeech
SearchRejectsPropagates ==
    /\ ~exited
    /\ pc = "search"
    /\ event' = <<"search_rejected", "">>
    /\ pre' = Snapshot
    /\ UNCHANGED aside
    /\ Finally(<<>>)
    /\ UNCHANGED <<session, exaKeySet, nUtter, leaveTimers, exited>>

\* searchExa rejects: network error, provider error, unparsable body
SearchRejects ==
    /\ ~exited
    /\ pc = "search"
    /\ event' = <<"search_rejected", "">>
    /\ pre' = Snapshot
    /\ UNCHANGED aside
    /\ SearchCatch(toolIdx, <<>>)
    /\ UNCHANGED <<session, exaKeySet, nUtter, leaveTimers, exited>>

\* the summary pushed and spoken without the isMuted test
SummaryResolvesIgnoresMute(content) ==
    /\ ~exited
    /\ pc = "summarize"
    /\ event' = <<"summary_resolved", IF content THEN "content" ELSE "none">>
    /\ pre' = Snapshot
    /\ UNCHANGED aside
    /\ IF content
       THEN /\ conversationHistory' =
                   Append(conversationHistory,
                          Turn("assistant", "summary", transcript))
            /\ AwaitSpeak("summary", toolIdx, <<>>)
       ELSE /\ UNCHANGED conversationHistory
            /\ Resume(toolIdx, <<>>)
    /\ UNCHANGED <<isMuted, isPaused, exaKeySet, nUtter, leaveTimers, exited>>

\* the second generateResponse (line 408) resolves; its tool_calls are not read
SummaryResolves(content) ==
    /\ ~exited
    /\ pc = "summarize"
    /\ event' = <<"summary_resolved", IF content THEN "content" ELSE "none">>
    /\ pre' = Snapshot
    /\ UNCHANGED aside
    /\ IF content /\ ~isMuted
       THEN /\ conversationHistory' =
                   Append(conversationHistory,
                          Turn("assistant", "summary", transcript))
            /\ IF speakElevenLabs
               THEN AwaitSpeak("summary", toolIdx, <<>>)
               ELSE Resume(toolIdx, <<>>)
       ELSE /\ UNCHANGED conversationHistory
            /\ Resume(toolIdx, <<>>)
    /\ UNCHANGED <<isMuted, isPaused, exaKeySet, nUtter, leaveTimers, exited>>

SummaryRejects ==
    /\ ~exited
    /\ pc = "summarize"
    /\ event' = <<"summary_rejected", "">>
    /\ pre' = Snapshot
    /\ UNCHANGED aside
    /\ SearchCatch(toolIdx, <<>>)
    /\ UNCHANGED <<session, exaKeySet, nUtter, leaveTimers, exited>>

\* the speech of a call inside web_search's try block
InSearchTry(kind) == kind \in {"nokey_apology", "empty_apology", "summary"}

\* playback closed: the promise of speakElevenLabs resolves
SpeakResolves ==
    /\ ~exited
    /\ pc = "speak"
    /\ event' = <<"speak_resolved", speaking>>
    /\ pre' = Snapshot
    /\ UNCHANGED aside
    /\ CASE speaking = "leave_ack" ->
                /\ LeaveSignal(toolIdx, <<>>)
                /\ UNCHANGED <<conversationHistory, isMuted>>
         [] speaking = "content" ->
                /\ Finally(<<>>)
                /\ UNCHANGED <<session, leaveTimers>>
         [] OTHER ->
                /\ Resume(toolIdx, <<>>)
                /\ UNCHANGED <<session, leaveTimers>>
    /\ UNCHANGED <<exaKeySet, nUtter, exited>>

\* the promise of speakElevenLabs rejects: request error, status other than
\* 200, paplay error.  Inside web_search's try the catch block takes it; from
\* anywhere else it reaches the catch of handleUserSpeech.
SpeakRejects ==
    /\ ~exited
    /\ pc = "speak"
    /\ event' = <<"speak_rejected", speaking>>
    /\ pre' = Snapshot
    /\ UNCHANGED aside
    /\ IF InSearchTry(speaking)
       THEN SearchCatch(toolIdx, <<>>)
       ELSE Finally(<<>>)
    /\ UNCHANGED <<session, exaKeySet, nUtter, leaveTimers, exited>>

\* the callback of the timer leave_meeting arms: cleanup, process.exit(0)
LeaveTimeout ==
    /\ ~exited
    /\ Yielded
    /\ leaveTimers > 0
    /\ exited' = TRUE
    /\ event' = <<"leave_timeout", "">>
    /\ pre' = Snapshot
    /\ UNCHANGED aside
    /\ out' = <<>>
    /\ UNCHANGED <<session, cycle, exaKeySet, nUtter, leaveTimers>>

----------------------------------------------------------------------------

CycleStep ==
    \/ \E r \in Results : GenerateResolves(r)
    \/ GenerateRejects
    \/ HandleToolCall
    \/ SpeakContent
    \/ \E empty \in BOOLEAN : SearchResolves(empty)
    \/ SearchRejects
    \/ \E content \in BOOLEAN : SummaryResolves(content)
    \/ SummaryRejects
    \/ SpeakResolves
    \/ SpeakRejects

Next ==
    \/ \E blank \in BOOLEAN : OnTranscription(blank)
    \/ CycleStep
    \/ LeaveTimeout

Spec == Init /\ [][Next]_vars

\* Each request the cycle awaits is eventually answered or fails.
FairSpec == Spec /\ WF_vars(CycleStep)

NextLong ==
    \/ \E blank \in BOOLEAN : LongTranscription(blank)
    \/ CycleStep
    \/ LeaveTimeout

LongSpec == Init /\ [][NextLong]_vars

\* Synchronous code runs to its next await, and an armed timer whose delay
\* has passed gets its callback run once the event loop is free.  Requests
\* may stay unanswered for ever.
ExitSpec ==
    /\ Spec
    /\ WF_vars(HandleToolCall \/ SpeakContent)
    /\ WF_vars(LeaveTimeout)

----------------------------------------------------------------------------
\* The result count of one web_search call, from the arguments to the list
\* searchExa resolves with.

\* the count arguments tried, and the results the service's answer may carry
MaxCount == 8
MaxAvailable == 8

SearchCalls ==
    [given : BOOLEAN, count : (0 - MaxCount)..MaxCount,
     available : 0..MaxAvailable]

\* const searchCount = args.count || 3
SearchCount(given, count) == IF ~given \/ count = 0 THEN 3 ELSE count

\* the length of list.slice(0, end) for a list of len entries
SliceLen(len, end) ==
    IF end < 0 THEN (IF len + end > 0 THEN len + end ELSE 0)
    ELSE (IF end < len THEN end ELSE len)

\* web_search with a query and a key: searchExa(searchQuery, searchCount)
\* sends numResults: count and resolves with json.results.slice(0, count)
searchExa ==
    /\ exaKeySet
    /\ ~searchRet.done
    /\ LET count == SearchCount(searchCall.given, searchCall.count)
       IN  searchRet' = [done |-> TRUE, numResults |-> count,
                         returned |-> SliceLen(searchCall.available, count)]
    /\ UNCHANGED <<session, cycle, searchCall, exaKeySet, event, out, pre,
                   nUtter, leaveTimers, exited, stream, pending, tts,
                   playback>>

CountInit ==
    /\ Streaming
    /\ PendingIdle
    /\ Start
    /\ exaKeySet
    /\ searchCall \in SearchCalls
    /\ searchRet = NoSearchRet
    /\ TtsIdle
    /\ PlaybackIdle

CountNext == searchExa

CountSpec == CountInit /\ [][CountNext]_vars

----------------------------------------------------------------------------
\* The transcription connection and the audio capture.

\* session.updated messages and audio chunks followed in a behaviour
MaxCaptures == 2
MaxChunks == 2

\* what the connection handlers leave alone
offStream ==
    <<session, cycle, exaKeySet, nUtter, leaveTimers, search, pending, tts,
      playback>>

\* ws.on('open'): send session.update
WsOpen ==
    /\ ~exited
    /\ wsState = "connecting"
    /\ wsState' = "open"
    /\ configSent' = TRUE
    /\ event' = <<"ws_open", "">>
    /\ pre' = Snapshot
    /\ out' = <<>>
    /\ UNCHANGED <<captures, chunksSent, exited, offStream>>

\* ws.on('message'), case session.updated: startAudioCapture()
SessionUpdated ==
    /\ ~exited
    /\ Yielded
    /\ wsState = "open"
    /\ captures < MaxCaptures
    /\ captures' = captures + 1
    /\ event' = <<"session_updated", "">>
    /\ pre' = Snapshot
    /\ out' = <<>>
    /\ UNCHANGED <<wsState, configSent, chunksSent, exited, offStream>>

\* parecord.stdout.on('data') sending whatever the readyState
AudioChunkUnchecked ==
    /\ ~exited
    /\ Yielded
    /\ captures > 0
    /\ chunksSent < MaxChunks
    /\ chunksSent' = chunksSent + 1
    /\ event' = <<"chunk", "sent">>
    /\ pre' = Snapshot
    /\ out' = <<>>
    /\ UNCHANGED <<wsState, configSent, captures, exited, offStream>>

\* parecord.stdout.on('data'): forward the chunk if the socket is open
AudioChunk ==
    /\ ~exited
    /\ Yielded
    /\ captures > 0
    /\ chunksSent < MaxChunks
    /\ IF wsState = "open"
       THEN /\ chunksSent' = chunksSent + 1
            /\ event' = <<"chunk", "sent">>
       ELSE /\ UNCHANGED chunksSent
            /\ event' = <<"chunk", "dropped">>
    /\ pre' = Snapshot
    /\ out' = <<>>
    /\ UNCHANGED <<wsState, configSent, captures, exited, offStream>>

\* the socket leaves OPEN (closing handshake, network failure): readyState
\* changes before any handler runs
SocketCloses ==
    /\ ~exited
    /\ Yielded
    /\ wsState \in {"connecting", "open"}
    /\ wsState' = "closing"
    /\ event' = <<"socket_closing", "">>
    /\ pre' = Snapshot
    /\ out' = <<>>
    /\ UNCHANGED <<configSent, captures, chunksSent, exited, offStream>>

\* ws.on('error'): console.error
WsError ==
    /\ ~exited
    /\ Yielded
    /\ wsState # "closed"
    /\ event' = <<"ws_error", "">>
    /\ pre' = Snapshot
    /\ out' = <<>>
    /\ UNCHANGED <<stream, exited, offStream>>

\* a close handler that opens a new connection instead of exiting
WsCloseReconnects ==
    /\ ~exited
    /\ Yielded
    /\ wsState = "closing"
    /\ wsState' = "connecting"
    /\ captures' = 0
    /\ event' = <<"ws_close", "">>
    /\ pre' = Snapshot
    /\ out' = <<>>
    /\ UNCHANGED <<configSent, chunksSent, exited, offStream>>

\* cleanup(): `if (parecord) parecord.kill()` kills the process the variable
\* holds, the one started last; the result is the number still running
cleanup == IF captures > 0 THEN captures - 1 ELSE captures

\* ws.on('close'): cleanup(), process.exit(0)
WsClose ==
    /\ ~exited
    /\ Yielded
    /\ wsState = "closing"
    /\ wsState' = "closed"
    /\ captures' = cleanup
    /\ exited' = TRUE
    /\ event' = <<"ws_close", "">>
    /\ pre' = Snapshot
    /\ out' = <<>>
    /\ UNCHANGED <<configSent, chunksSent, offStream>>

\* process.on('SIGINT') / process.on('SIGTERM'): cleanup(), which also
\* closes an open socket, then process.exit(0)
Terminate ==
    /\ ~exited
    /\ Yielded
    /\ captures' = cleanup
    /\ wsState' = IF wsState = "open" THEN "closing" ELSE wsState
    /\ exited' = TRUE
    /\ event' = <<"signal", "">>
    /\ pre' = Snapshot
    /\ out' = <<>>
    /\ UNCHANGED <<configSent, chunksSent, offStream>>

\* the script has just constructed the WebSocket
Connecting ==
    /\ wsState = "connecting"
    /\ configSent = FALSE
    /\ captures = 0
    /\ chunksSent = 0

StreamInit ==
    /\ Connecting
    /\ PendingIdle
    /\ Start
    /\ SearchIdle
    /\ TtsIdle
    /\ PlaybackIdle

StreamNext ==
    \/ WsOpen
    \/ SessionUpdated
    \/ AudioChunk
    \/ SocketCloses
    \/ WsError
    \/ WsClose
    \/ Terminate
    \/ \E blank \in BOOLEAN : OnTranscription(blank)

StreamSpec == StreamInit /\ [][StreamNext]_vars

----------------------------------------------------------------------------
\* A user turn pushed on a history that is already long.

\* length of the history an utterance finds
MaxOldHistory == 27

\* n earlier turns of one role, numbered in the order they were pushed
OldHistory(n, role) == [i \in 1..n |-> Turn(role, "old", i)]

TruncInit ==
    /\ Streaming
    /\ PendingIdle
    /\ \E n \in 0..MaxOldHistory :
           \E role \in {"user", "assistant", "system"} :
               Idle(OldHistory(n, role))
    /\ SearchIdle
    /\ TtsIdle
    /\ PlaybackIdle

TruncNext == \E blank \in BOOLEAN : OnTranscription(blank)

TruncSpec == TruncInit /\ [][TruncNext]_vars

----------------------------------------------------------------------------
\* expandAbbreviations.  A text is a sequence of characters.

\* length of the texts tried
MaxTextLen == 4

\* the characters of the texts tried: those of St and Dr, another letter,
\* a space, a comma and a period
TextChars == {"S", "t", "D", "r", "u", " ", ",", "."}

Texts == UNION {[1..n -> TextChars] : n \in 1..MaxTextLen}

\* \w of the characters used here
WordChars ==
    {"S", "t", "r", "e", "A", "v", "n", "u", "B", "l", "d", "o", "a", "D",
     "i", "R", "L", "C", "P", "c", "M", "s", "1", "2", "3"}

\* \s of the characters used here
Whitespace == {" "}

\* the replacements, in the order of the .replace calls
Abbreviations ==
    <<[tok |-> <<"S", "t">>,
       exp |-> <<"S", "t", "r", "e", "e", "t">>],
      [tok |-> <<"A", "v", "e">>,
       exp |-> <<"A", "v", "e", "n", "u", "e">>],
      [tok |-> <<"B", "l", "v", "d">>,
       exp |-> <<"B", "o", "u", "l", "e", "v", "a", "r", "d">>],
      [tok |-> <<"D", "r">>,
       exp |-> <<"D", "r", "i", "v", "e">>],
      [tok |-> <<"R", "d">>,
       exp |-> <<"R", "o", "a", "d">>],
      [tok |-> <<"L", "n">>,
       exp |-> <<"L", "a", "n", "e">>],
      [tok |-> <<"C", "t">>,
       exp |-> <<"C", "o", "u", "r", "t">>],
      [tok |-> <<"P", "l">>,
       exp |-> <<"P", "l", "a", "c", "e">>]>>

IsWordAt(text, k) == k \in 1..Len(text) /\ text[k] \in WordChars

\* \b between the characters k and k + 1
WordBoundary(text, k) == IsWordAt(text, k) # IsWordAt(text, k + 1)

\* a lookahead that accepts whatever follows
LookaheadAny(text, j) == TRUE

\* (?=\s|,|$) before the character j
Lookahead(text, j) ==
    j > Len(text) \/ text[j] \in Whitespace \cup {","}

\* /\btok\b(?=\s|,|$)/ matches at the character i
MatchAt(text, i, tok) ==
    /\ i + Len(tok) - 1 <= Len(text)
    /\ SubSeq(text, i, i + Len(tok) - 1) = tok
    /\ WordBoundary(text, i - 1)
    /\ WordBoundary(text, i + Len(tok) - 1)
    /\ Lookahead(text, i + Len(tok))

RECURSIVE ReplaceFrom(_, _, _)
\* text.replace(/\btok\b(?=\s|,|$)/g, exp), from the character i on
ReplaceFrom(text, i, entry) ==
    IF i > Len(text) THEN <<>>
    ELSE IF MatchAt(text, i, entry.tok)
         THEN entry.exp \o ReplaceFrom(text, i + Len(entry.tok), entry)
         ELSE <<text[i]>> \o ReplaceFrom(text, i + 1, entry)

RECURSIVE ExpandFrom(_, _)
\* the chain of .replace calls from the k-th on
ExpandFrom(text, k) ==
    IF k > Len(Abbreviations) THEN text
    ELSE ExpandFrom(ReplaceFrom(text, 1, Abbreviations[k]), k + 1)

expandAbbreviations(text) == ExpandFrom(text, 1)

\* speakElevenLabs(text), unmuted: processedText = expandAbbreviations(text)
SpeakText ==
    /\ ~exited
    /\ event[1] = "start"
    /\ ttsSent' = expandAbbreviations(ttsText)
    /\ event' = <<"expanded", "">>
    /\ UNCHANGED <<session, cycle, exaKeySet, out, pre, nUtter, leaveTimers,
                   exited, search, stream, pending, playback, ttsText>>

AbbrevInit ==
    /\ Streaming
    /\ PendingIdle
    /\ Start
    /\ exaKeySet
    /\ SearchIdle
    /\ PlaybackIdle
    /\ ttsText \in Texts
    /\ ttsSent = <<>>

AbbrevNext == SpeakText

AbbrevSpec == AbbrevInit /\ [][AbbrevNext]_vars

----------------------------------------------------------------------------
\* The playback queue of the native realtime bridge (README.md).

\* audio buffers queued at once, and paplay processes spawned in a behaviour
MaxQueue == 2
MaxPlaybacks == 5
\* response.audio.delta messages received in a behaviour
MaxDeltas == 5

\* what the playback handlers leave alone
offPlayback ==
    <<session, cycle, exaKeySet, out, pre, nUtter, leaveTimers, exited,
      search, stream, pending, tts>>

\* the paplay processes that may be writing to the device: spawned, and
\* neither failed nor closed yet
Writing == {p \in DOMAIN paplay : paplay[p].state = "writing"}

\* the buffers written to the stdin of the processes, in the order written
RECURSIVE Handed(_)
Handed(procs) ==
    IF procs = <<>> THEN <<>>
    ELSE Handed(SubSeq(procs, 1, Len(procs) - 1)) \o procs[Len(procs)].data

\* the deltas received so far: each is queued or was handed to a process
Received == Len(Handed(paplay)) + Len(audioQueue)

\* playAudioQueue() with q the buffers queued, playing the guard, procs the
\* processes: the values it leaves.  The process spawned is given the
\* concatenation of the queue.
playAudioQueue(q, playing, procs) ==
    IF playing \/ q = <<>>
    THEN [queue |-> q, playing |-> playing, procs |-> procs]
    ELSE [queue |-> <<>>, playing |-> TRUE,
          procs |-> Append(procs, [state |-> "writing", data |-> q])]

\* ws.on('message'), case response.audio.delta: push, playAudioQueue()
AudioDelta ==
    /\ ~exited
    /\ Received < MaxDeltas
    /\ Len(audioQueue) < MaxQueue
    /\ LET after == playAudioQueue(Append(audioQueue, Received + 1),
                                   isPlaying, paplay)
       IN  /\ Len(after.procs) <= MaxPlaybacks
           /\ audioQueue' = after.queue
           /\ isPlaying' = after.playing
           /\ paplay' = after.procs
    /\ event' = <<"audio_delta", "">>
    /\ UNCHANGED offPlayback

\* paplayProc.on('close'): clear the guard, play what arrived meanwhile.
\* close comes after exit, or after error when the spawn failed.
PaplayClose(p) ==
    /\ ~exited
    /\ p \in DOMAIN paplay
    /\ paplay[p].state \in {"writing", "failed"}
    /\ LET closed ==
               [paplay EXCEPT ![p].state =
                   IF @ = "failed" THEN "never_ran" ELSE "closed"]
           after == playAudioQueue(audioQueue, FALSE, closed)
       IN  /\ Len(after.procs) <= MaxPlaybacks
           /\ audioQueue' = after.queue
           /\ isPlaying' = after.playing
           /\ paplay' = after.procs
    /\ event' = <<"paplay_close", "">>
    /\ UNCHANGED offPlayback

\* paplayProc.on('error'): the process could not be spawned; clear the guard
PaplayError(p) ==
    /\ ~exited
    /\ p \in DOMAIN paplay
    /\ paplay[p].state = "writing"
    /\ paplay' = [paplay EXCEPT ![p].state = "failed"]
    /\ isPlaying' = FALSE
    /\ UNCHANGED audioQueue
    /\ event' = <<"paplay_error", "">>
    /\ UNCHANGED offPlayback

PlayInit ==
    /\ Streaming
    /\ PendingIdle
    /\ Start
    /\ SearchIdle
    /\ TtsIdle
    /\ PlaybackIdle

PlayNext ==
    \/ AudioDelta
    \/ \E p \in DOMAIN paplay : PaplayClose(p)
    \/ \E p \in DOMAIN paplay : PaplayError(p)

PlaySpec == PlayInit /\ [][PlayNext]_vars

\* A paplay process that was spawned ends, and one that could not be spawned
\* is reported: its close event is delivered.
PlayFairSpec ==
    /\ PlaySpec
    /\ \A p \in 1..MaxPlaybacks : WF_vars(PaplayClose(p))

----------------------------------------------------------------------------
\* Pending search requests: waitForSearchResults and the stdin line handler.

\* identifiers handed to waitForSearchResults in a behaviour
MaxSearches == 3

SearchIds == 1..MaxSearches
\* an identifier no request was made with
UnknownId == MaxSearches + 1

\* a line of stdin: search results for an identifier, search results with
\* no id, JSON of another type, or text JSON.parse rejects
Lines ==
    {<<"search_results", i>> : i \in SearchIds \cup {UnknownId}}
        \cup {<<"no_id", 0>>, <<"other_type", 0>>, <<"not_json", 0>>}

\* what the handlers of pending searches leave alone
offPending ==
    <<session, cycle, exaKeySet, nUtter, leaveTimers, exited, search, stream,
      tts, playback>>

\* resolve or reject of the promise of id: only the first call settles it
Settle(id, how) ==
    [settled EXCEPT ![id] =
        [state |-> IF @.state = "waiting" THEN how ELSE @.state,
         calls |-> @.calls + 1]]

\* waitForSearchResults(searchId): arm the timeout, register the waiter
waitForSearchResults(id) ==
    /\ ~exited
    /\ settled[id].state = "unasked"
    /\ searchTimers' = searchTimers \cup {id}
    /\ pendingSearches' = pendingSearches \cup {id}
    /\ settled' = [settled EXCEPT ![id].state = "waiting"]
    /\ event' = <<"wait_for_search", "">>
    /\ pre' = Snapshot
    /\ out' = <<>>
    /\ UNCHANGED offPending

\* the line handler resolving without clearTimeout and delete
RlLineKeepsEntry(line) ==
    /\ ~exited
    /\ event' = <<"line", line[1]>>
    /\ pre' = Snapshot
    /\ out' = <<>>
    /\ IF line[1] = "search_results" /\ line[2] \in pendingSearches
       THEN /\ settled' = Settle(line[2], "resolved")
            /\ UNCHANGED <<searchTimers, pendingSearches>>
       ELSE UNCHANGED pending
    /\ UNCHANGED offPending

\* rl.on('line')
RlLine(line) ==
    /\ ~exited
    /\ event' = <<"line", line[1]>>
    /\ pre' = Snapshot
    /\ out' = <<>>
    /\ IF line[1] = "search_results" /\ line[2] \in pendingSearches
       THEN /\ searchTimers' = searchTimers \ {line[2]}
            /\ pendingSearches' = pendingSearches \ {line[2]}
            /\ settled' = Settle(line[2], "resolved")
       ELSE UNCHANGED pending
    /\ UNCHANGED offPending

\* the callback of the timeout waitForSearchResults arms
SearchTimeout(id) ==
    /\ ~exited
    /\ id \in searchTimers
    /\ searchTimers' = searchTimers \ {id}
    /\ pendingSearches' = pendingSearches \ {id}
    /\ settled' = Settle(id, "rejected")
    /\ event' = <<"search_timeout", "">>
    /\ pre' = Snapshot
    /\ out' = <<>>
    /\ UNCHANGED offPending

PendingInit ==
    /\ pendingSearches = {}
    /\ searchTimers = {}
    /\ settled = [i \in SearchIds |-> [state |-> "unasked", calls |-> 0]]
    /\ Streaming
    /\ Start
    /\ SearchIdle
    /\ TtsIdle
    /\ PlaybackIdle

PendingNext ==
    \/ \E id \in SearchIds : waitForSearchResults(id)
    \/ \E line \in Lines : RlLine(line)
    \/ \E id \in SearchIds : SearchTimeout(id)

\* an armed timeout fires unless it is cleared
PendingSpec ==
    /\ PendingInit
    /\ [][PendingNext]_vars
    /\ \A id \in SearchIds : WF_vars(SearchTimeout(id))

----------------------------------------------------------------------------
\* The events that only log: speech boundaries, error messages and socket
\* errors of the connection, lines of stdin with no waiter.

\* a speech-boundary handler that resumes listening
SpeechBoundaryUnpauses(started) ==
    /\ ~exited
    /\ Yielded
    /\ wsState = "open"
    /\ event' = <<IF started THEN "speech_started" ELSE "speech_stopped", "">>
    /\ pre' = Snapshot
    /\ out' = <<>>
    /\ isPaused' = FALSE
    /\ UNCHANGED <<conversationHistory, isMuted, cycle, exaKeySet, nUtter,
                   leaveTimers, exited, aside>>

\* ws.on('message'), cases input_audio_buffer.speech_started and
\* speech_stopped: `if (!isPaused) console.log(...)`
SpeechBoundary(started) ==
    /\ ~exited
    /\ Yielded
    /\ wsState = "open"
    /\ event' = <<IF started THEN "speech_started" ELSE "speech_stopped", "">>
    /\ pre' = Snapshot
    /\ out' = <<>>
    /\ UNCHANGED <<stream, exited, offStream>>

\* ws.on('message'), case error: console.error
ErrorMessage ==
    /\ ~exited
    /\ Yielded
    /\ wsState = "open"
    /\ event' = <<"error_message", "">>
    /\ pre' = Snapshot
    /\ out' = <<>>
    /\ UNCHANGED <<stream, exited, offStream>>

\* a line of stdin read between two steps of the session
StdinLine == Yielded /\ \E line \in Lines : RlLine(line)

EventNext ==
    \/ Next
    \/ \E started \in BOOLEAN : SpeechBoundary(started)
    \/ ErrorMessage
    \/ WsError
    \/ StdinLine

\* the session with every event its handlers are registered for
EventSpec == Init /\ [][EventNext]_vars

TypeOK ==
    /\ isProcessingResponse \in BOOLEAN
    /\ isMuted \in BOOLEAN
    /\ isPaused \in BOOLEAN
    /\ pc \in {"idle", "generate", "tools", "search", "summarize", "speak"}
    /\ result \in Results
    /\ toolIdx \in 0..Len(result.tool_calls)
    /\ speaking \in SpeechKinds \cup {"none"}
    /\ transcript \in 0..nUtter
    /\ exited \in BOOLEAN
    /\ spoken \in 0..(2 * MaxToolCalls + 1)

----------------------------------------------------------------------------
\* Reading the observations.

Signals(o) == {o[i][2] : i \in {j \in DOMAIN o : o[j][1] = "SIGNAL"}}
Speeches(o) == {o[i][2] : i \in {j \in DOMAIN o : o[j][1] = "TTS"}}

\* the last step left the session, the cycle and the timers as it found them
NothingChanged == Snapshot = pre

SessionKept ==
    /\ conversationHistory = pre.hist
    /\ isMuted = pre.muted
    /\ isPaused = pre.paused

Heard == event = <<"transcription", "text">>
Ran(tool) == event = <<"tool", tool>>

InHistory(t) == \E i \in DOMAIN conversationHistory : conversationHistory[i] = t

----------------------------------------------------------------------------

C2_HistoryAtMost20 == Len(conversationHistory) <= HistoryLimit

C4_PausedUtteranceStartsCycle ==
    (Heard /\ pre.paused /\ ~pre.busy /\ pre.timers = 0) =>
        (isProcessingResponse /\ pc = "generate")

\* C5: while isMuted is true and isPaused is false an utterance reaching an
\* idle session starts a cycle and is appended as a user turn; the tool calls
\* of a muted session are executed (unmute_self unmutes and signals, and so
\* on); and no step taken while isMuted is true issues a synthesis request,
\* so nothing is being spoken in a muted state.
C5_MutedListensSilently ==
    /\ isMuted => speaking = "none"
    /\ pre.muted => Speeches(out) = {}
    /\ (Heard /\ pre.muted /\ ~pre.paused /\ ~pre.busy) =>
           /\ isProcessingResponse
           /\ pc = "generate"
           /\ Len(conversationHistory) > 0
           /\ conversationHistory[Len(conversationHistory)]
                  = Turn("user", "utterance", nUtter)
    /\ (event[1] = "tool" /\ pre.muted) =>
           CASE event[2] = "unmute_self" ->
                    ~isMuted /\ out = <<Signal("UNMUTED")>>
             [] event[2] = "mute_self" -> isMuted /\ out = <<>>
             [] event[2] = "pause_listening" ->
                    isPaused /\ out = <<Signal("PAUSED")>>
             [] event[2] = "resume_listening" ->
                    ~isPaused /\ out = <<Signal("RESUMED")>>
             [] event[2] = "leave_meeting" ->
                    /\ isPaused
                    /\ out = <<Signal("LEAVE_MEETING")>>
                    /\ leaveTimers = pre.timers + 1
             [] event[2] = "web_search" ->
                    (pre.result.tool_calls[toolIdx].args = "query" /\ exaKeySet)
                        => pc = "search"
             [] OTHER -> out = <<>>

\* the second utterance reached a muted session, is in the history, and the
\* first tool call of its result, unmute_self, has just been executed
C5_Witness ==
    /\ Ran("unmute_self")
    /\ pre.muted
    /\ ~isMuted
    /\ toolIdx = 1
    /\ transcript = 2
    /\ InHistory(Turn("user", "utterance", 2))

\* C6: a result with content that ends its tool calls with isMuted true has
\* the content recorded in the history as an assistant turn, and not spoken.
C6_MutedContentRecorded ==
    (event = <<"after_tools", "content">> /\ pre.muted) =>
        /\ conversationHistory
               = Append(pre.hist, Turn("assistant", "reply", pre.transcript))
        /\ Speeches(out) = {}

\* C6 as the code has it: the utterance is in the history as a user turn, and
\* the content of a result that finds isMuted true after its tool calls is
\* neither recorded nor spoken, the cycle ends; with isMuted false it is
\* recorded as an assistant turn and spoken.
C6_MutedContentDropped ==
    /\ (event = <<"after_tools", "content">> /\ pre.muted) =>
           /\ conversationHistory = pre.hist
           /\ InHistory(Turn("user", "utterance", pre.transcript))
           /\ Speeches(out) = {}
           /\ speaking = "none"
           /\ ~isProcessingResponse
    /\ (event = <<"after_tools", "content">> /\ ~pre.muted) =>
           /\ conversationHistory
                  = Append(pre.hist, Turn("assistant", "reply", pre.transcript))
           /\ out = <<Tts("content")>>
           /\ speaking = "content"

\* the second utterance, heard by a session muted before, got a result with
\* content and no tool calls, and its cycle has just ended
C6_Witness ==
    /\ event = <<"after_tools", "content">>
    /\ pre.muted
    /\ pre.transcript = 2
    /\ pre.result.tool_calls = <<>>
    /\ pc = "idle"

C8_ToolsInOrder ==
    /\ event[1] = "tool" =>
           /\ pre.pc = "tools"
           /\ pre.speaking = "none"
           /\ result = pre.result
           /\ toolIdx = pre.toolIdx + 1
           /\ toolIdx <= Len(result.tool_calls)
           /\ event[2] = result.tool_calls[toolIdx].name
    /\ toolIdx # pre.toolIdx => (event[1] = "tool" \/ toolIdx = 0)
    /\ event[1] = "after_tools" =>
           /\ pre.pc = "tools"
           /\ pre.speaking = "none"
           /\ pre.toolIdx = Len(pre.result.tool_calls)
    /\ speaking = "content" => toolIdx = Len(result.tool_calls)
    /\ Tts("content") \in {out[i] : i \in DOMAIN out} =>
           event[1] = "after_tools"
    /\ (/\ Len(result.tool_calls) = 1
        /\ result.tool_calls[1].name = "mute_self"
        /\ result.content) => speaking # "content"
    /\ (/\ event[1] = "after_tools"
        /\ Len(pre.result.tool_calls) = 1
        /\ pre.result.tool_calls[1].name = "mute_self"
        /\ pre.result.content) => (out = <<>> /\ pc = "idle")

\* of [pause_listening, mute_self] plus content the second call has just run,
\* after the first and its acknowledgement
C8_Witness ==
    /\ Ran("mute_self")
    /\ toolIdx = 2
    /\ result.tool_calls[1].name = "pause_listening"
    /\ result.content
    /\ ~pre.muted
    /\ isMuted
    /\ isPaused

\* C9: mute_self while isMuted is true, and unmute_self while it is false,
\* leave isMuted, isPaused and the history as they were, emit no signal and
\* speak nothing.  mute_self always ends with isMuted true and emits MUTED
\* only when it was false (unmute_self alike), so a second application in a
\* row changes and emits nothing more.
C9_MuteUnmuteIdempotent ==
    /\ (Ran("mute_self") /\ pre.muted) =>
           (SessionKept /\ out = <<>> /\ leaveTimers = pre.timers)
    /\ (Ran("unmute_self") /\ ~pre.muted) =>
           (SessionKept /\ out = <<>> /\ leaveTimers = pre.timers)
    /\ Ran("mute_self") =>
           /\ isMuted
           /\ ~pre.muted => out = <<Signal("MUTED")>>
    /\ Ran("unmute_self") =>
           /\ ~isMuted
           /\ pre.muted => out = <<Signal("UNMUTED")>>

\* mute_self has just run for the second time in a row
C9_Witness ==
    /\ Ran("mute_self")
    /\ toolIdx = 2
    /\ result.tool_calls[1].name = "mute_self"
    /\ pre.muted

\* C10: pause_listening while isPaused is true, and resume_listening while
\* it is false, change no state, emit no signal and speak nothing.
C10_PauseResumeNoOp ==
    /\ (Ran("pause_listening") /\ pre.paused) => (SessionKept /\ out = <<>>)
    /\ (Ran("resume_listening") /\ ~pre.paused) => (SessionKept /\ out = <<>>)

\* C10 as the code has it: pause_listening while isPaused is true, and
\* resume_listening while it is false, leave isPaused, isMuted and the
\* history as they were, but are not detected as duplicates: each emits its
\* signal again and, unless muted, speaks its acknowledgement again.
C10_PauseResumeRepeat ==
    /\ (Ran("pause_listening") /\ pre.paused) =>
           /\ SessionKept
           /\ out = IF pre.muted THEN <<Signal("PAUSED")>>
                    ELSE <<Signal("PAUSED"), Tts("pause_ack")>>
    /\ (Ran("resume_listening") /\ ~pre.paused) =>
           /\ SessionKept
           /\ out = IF pre.muted THEN <<Signal("RESUMED")>>
                    ELSE <<Signal("RESUMED"), Tts("resume_ack")>>

\* pause_listening has just run on a paused, unmuted session and speaks again
C10_Witness ==
    /\ Ran("pause_listening")
    /\ pre.paused
    /\ ~pre.muted
    /\ speaking = "pause_ack"

\* the entries of a sequence
Range(o) == {o[i] : i \in DOMAIN o}

Left == Signal("LEAVE_MEETING") \in Range(out)

\* C11: leave_meeting with isMuted false first speaks the acknowledgement,
\* with no signal emitted, isPaused untouched and no timer armed; the
\* LEAVE_MEETING signal comes only in the step that finds the acknowledgement
\* completed, and the timer is armed in the very step that emits the signal,
\* never in another.  With isMuted true the call emits the signal and arms
\* the timer at once, with no acknowledgement.
C11_AckBeforeLeaveSignal ==
    /\ (Ran("leave_meeting") /\ ~pre.muted) =>
           /\ out = <<Tts("leave_ack")>>
           /\ speaking = "leave_ack"
           /\ pc = "speak"
           /\ leaveTimers = pre.timers
           /\ isPaused = pre.paused
    /\ (Ran("leave_meeting") /\ pre.muted) =>
           /\ out = <<Signal("LEAVE_MEETING")>>
           /\ speaking = "none"
           /\ leaveTimers = pre.timers + 1
           /\ isPaused
    /\ Left =>
           /\ \/ Ran("leave_meeting") /\ pre.muted
              \/ event = <<"speak_resolved", "leave_ack">>
           /\ Speeches(out) = {}
           /\ leaveTimers = pre.timers + 1
           /\ isPaused
    /\ leaveTimers # pre.timers => Left
    /\ event = <<"speak_resolved", "leave_ack">> =>
           (out = <<Signal("LEAVE_MEETING")>> /\ ~pre.muted)

\* the acknowledgement has completed and the signal has just been emitted,
\* arming the first timer
C11_Witness ==
    /\ event = <<"speak_resolved", "leave_ack">>
    /\ out = <<Signal("LEAVE_MEETING")>>
    /\ pre.timers = 0
    /\ leaveTimers = 1
    /\ isPaused

\* C12: once the LEAVE_MEETING signal has been emitted the process
\* eventually exits through the timer, with no external termination, whether
\* the session is idle or a cycle is suspended when the timer fires.
C12_LeaveEventuallyExits ==
    /\ Left ~> exited
    /\ [](Left => leaveTimers > 0)
    /\ [](event = <<"leave_timeout", "">> => (exited /\ pre.timers > 0))

\* the timer has fired while a cycle was suspended on speech
C12_Witness ==
    /\ event = <<"leave_timeout", "">>
    /\ exited
    /\ pre.busy
    /\ pre.pc = "speak"

\* C13: a rejected generation, the one that starts a cycle or the one
\* that summarizes search results, executes no tool, speaks nothing, emits
\* no signal, leaves the flags alone and ends the cycle without exiting.
C13_GenerationFailureSilent ==
    event[1] \in {"generate_rejected", "summary_rejected"} =>
        /\ SessionKept
        /\ out = <<>>
        /\ pc = "idle"
        /\ ~isProcessingResponse
        /\ ~exited

\* C13 as the code has it: a rejection of the generation that starts a cycle
\* executes no tool, speaks nothing, emits no signal, leaves the flags, the
\* history and the timers alone, ends the cycle and does not exit, and an
\* utterance that then reaches the idle, unpaused session starts a cycle.  A
\* rejection of the summary generation inside web_search is turned into the
\* "search failed" apology (unless muted) and the cycle goes on.
C13_GenerationFailure ==
    /\ event[1] = "generate_rejected" =>
           /\ SessionKept
           /\ leaveTimers = pre.timers
           /\ out = <<>>
           /\ pre.pc = "generate"
           /\ pc = "idle"
           /\ ~isProcessingResponse
           /\ ~exited
    /\ (Heard /\ pre.pc = "idle" /\ ~pre.paused) =>
           /\ isProcessingResponse
           /\ pc = "generate"
           /\ transcript = nUtter
    /\ event[1] = "summary_rejected" =>
           /\ SessionKept
           /\ isProcessingResponse
           /\ toolIdx = pre.toolIdx
           /\ result = pre.result
           /\ IF pre.muted THEN out = <<>> /\ pc = "tools"
              ELSE out = <<Tts("fail_apology")>> /\ pc = "speak"

\* the generation for the first utterance failed, the session is idle again
C13_Witness ==
    /\ event[1] = "generate_rejected"
    /\ pre.transcript = 1
    /\ InHistory(Turn("user", "utterance", 1))
    /\ pc = "idle"
    /\ ~isPaused
    /\ ~exited

\* C14: a tool call with a name outside the toolset leaves the flags, the
\* history and the timers alone, emits no signal, speaks nothing and throws
\* nothing: the cycle is still running, in the loop, at the next tool call of
\* the same result, whose content is spoken after the loop as for any result.
C14_UnknownToolIgnored ==
    /\ Ran("unknown_tool") =>
           /\ SessionKept
           /\ leaveTimers = pre.timers
           /\ out = <<>>
           /\ speaking = "none"
           /\ isProcessingResponse
           /\ pc = "tools"
           /\ result = pre.result
           /\ transcript = pre.transcript
           /\ toolIdx = pre.toolIdx + 1
    /\ (/\ event = <<"after_tools", "content">>
        /\ \E i \in DOMAIN pre.result.tool_calls :
               pre.result.tool_calls[i].name = "unknown_tool"
        /\ ~pre.muted) => out = <<Tts("content")>>

\* the call after an unknown tool has just been executed
C14_Witness ==
    /\ Ran("pause_listening")
    /\ toolIdx = 2
    /\ result.tool_calls[1].name = "unknown_tool"
    /\ result.content
    /\ isPaused

\* C15: when searchExa resolves with an empty list, web_search speaks the
\* "couldn't find any results" apology unless muted, does not call
\* generateResponse again, and leaves the history as it was, also while and
\* after the apology; the summary generation is only ever started by a
\* non-empty result list.
C15_EmptyResults ==
    /\ event = <<"search_resolved", "empty">> =>
           /\ conversationHistory = pre.hist
           /\ pre.pc = "search"
           /\ IF pre.muted THEN out = <<>> /\ pc = "tools"
              ELSE out = <<Tts("empty_apology")>> /\ pc = "speak"
    /\ (event[1] \in {"speak_resolved", "speak_rejected"}
        /\ event[2] = "empty_apology") =>
           (conversationHistory = pre.hist /\ pc # "summarize")
    /\ (pc = "summarize" /\ pre.pc # "summarize") =>
           /\ event = <<"search_resolved", "results">>
           /\ Len(conversationHistory) = Len(pre.hist) + 2

\* an empty result list has just arrived at an unmuted session
C15_Witness ==
    /\ event = <<"search_resolved", "empty">>
    /\ ~pre.muted
    /\ speaking = "empty_apology"
    /\ conversationHistory = pre.hist

SearchTurns ==
    {i \in DOMAIN conversationHistory :
         conversationHistory[i].kind \in {"marker", "results", "summary"}}

\* C16: with EXA_API_KEY unset the session starts and runs its cycles; a
\* web_search call with a query then never reaches searchExa, speaks the
\* "not configured" apology unless muted, and leaves the history unchanged
\* (the history never holds a search marker, results or a summary).
C16_NoSearchCredential ==
    ~exaKeySet =>
        /\ pc \notin {"search", "summarize"}
        /\ SearchTurns = {}
        /\ (Ran("web_search") /\ pre.result.tool_calls[toolIdx].args = "query")
               => /\ conversationHistory = pre.hist
                  /\ isMuted = pre.muted
                  /\ isPaused = pre.paused
                  /\ isProcessingResponse
                  /\ IF pre.muted THEN out = <<>> /\ pc = "tools"
                     ELSE out = <<Tts("nokey_apology")>> /\ pc = "speak"

\* without the key, a web_search with a query has just spoken the apology
C16_Witness ==
    /\ ~exaKeySet
    /\ Ran("web_search")
    /\ result.tool_calls[toolIdx].args = "query"
    /\ speaking = "nokey_apology"
    /\ InHistory(Turn("user", "utterance", 1))

\* C17: a rejection of searchExa stays inside handleToolCall: the step that
\* handles it speaks the "search failed" apology unless muted, changes no
\* flag and no history, and the cycle is still running at the same tool
\* call; once the apology has been played control is back in the loop, at
\* the remaining calls and the content of the same result.
C17_SearchFailureCaught ==
    /\ event[1] = "search_rejected" =>
           /\ SessionKept
           /\ leaveTimers = pre.timers
           /\ ~exited
           /\ isProcessingResponse
           /\ result = pre.result
           /\ toolIdx = pre.toolIdx
           /\ IF pre.muted THEN out = <<>> /\ pc = "tools"
              ELSE out = <<Tts("fail_apology")>> /\ pc = "speak"
    /\ event = <<"speak_resolved", "fail_apology">> =>
           /\ SessionKept
           /\ isProcessingResponse
           /\ pc = "tools"
           /\ result = pre.result
           /\ toolIdx = pre.toolIdx

\* the search of the first of two calls has just failed, unmuted
C17_Witness ==
    /\ event[1] = "search_rejected"
    /\ ~pre.muted
    /\ speaking = "fail_apology"
    /\ toolIdx = 1
    /\ Len(result.tool_calls) = 2
    /\ result.content

\* C18: whatever count a web_search call supplies, the numResults sent to
\* the service is within 1..5 (3 when no count is given), and the list
\* searchExa resolves with has at most that many entries.
C18_CountClamped ==
    searchRet.done =>
        /\ searchRet.numResults \in 1..5
        /\ ~searchCall.given => searchRet.numResults = 3
        /\ searchRet.returned <= searchRet.numResults

C20_NoSpeechWhileMuted ==
    /\ (speaking # "none" \/ pc = "speak") => ~isMuted
    /\ Speeches(out) # {} => (~pre.muted /\ ~isMuted)
    /\ (pre.muted /\ event[1] \notin {"start", "leave_timeout"}) =>
           (spoken = pre.spoken \/ spoken = 0)

\* pause_listening has just run muted: signal, no acknowledgement
C20_Witness ==
    /\ Ran("pause_listening")
    /\ pre.muted
    /\ out = <<Signal("PAUSED")>>
    /\ speaking = "none"
    /\ pc = "tools"

\* C21: mute_self and unmute_self never change isPaused; pause_listening,
\* resume_listening and leave_meeting (its call and the step that follows the
\* acknowledgement) never change isMuted; isMuted changes only in a mute_self
\* or unmute_self step and isPaused only in a pause_listening,
\* resume_listening or leave_meeting step.
C21_FlagsIndependent ==
    /\ (Ran("mute_self") \/ Ran("unmute_self")) => isPaused = pre.paused
    /\ (\/ Ran("pause_listening")
        \/ Ran("resume_listening")
        \/ Ran("leave_meeting")
        \/ event = <<"speak_resolved", "leave_ack">>
        \/ event = <<"speak_rejected", "leave_ack">>) => isMuted = pre.muted
    /\ isMuted # pre.muted => (Ran("mute_self") \/ Ran("unmute_self"))
    /\ isPaused # pre.paused =>
           \/ Ran("pause_listening")
           \/ Ran("resume_listening")
           \/ Ran("leave_meeting")
           \/ event = <<"speak_resolved", "leave_ack">>

\* all four combinations on one path: from (false, false) a first cycle
\* muted; the second cycle, started muted and unpaused, ran pause_listening
\* (muted and paused) and has just run unmute_self (unmuted and paused)
C21_Witness ==
    /\ Ran("unmute_self")
    /\ transcript = 2
    /\ toolIdx = 2
    /\ result.tool_calls[1].name = "pause_listening"
    /\ pre.muted
    /\ pre.paused
    /\ ~isMuted
    /\ isPaused

C23_ChunksOnlyWhenStreaming ==
    /\ event[1] = "chunk" =>
           /\ (event[2] = "sent") <=> (wsState = "open")
           /\ chunksSent = pre.chunks + (IF wsState = "open" THEN 1 ELSE 0)
           /\ configSent
           /\ captures > 0
    /\ chunksSent # pre.chunks => event = <<"chunk", "sent">>
    /\ chunksSent > 0 => configSent
    /\ captures > 0 => (configSent /\ wsState # "connecting")
    /\ wsState = "connecting" => (chunksSent = 0 /\ captures = 0)

\* a chunk has just been dropped on a socket that left OPEN after streaming
C23_Witness ==
    /\ event = <<"chunk", "dropped">>
    /\ wsState = "closing"
    /\ chunksSent = 1
    /\ pre.chunks = 1

\* C24: a web_search that awaits its search does not wait for ever: if no
\* result comes the wait is abandoned (and turned into a spoken apology).
C24_SearchWaitAbandoned == (pc = "search") ~> (pc # "search" \/ exited)

\* C28: the keys of pendingSearches are exactly the identifiers waited for
\* and not yet settled, each with its timeout armed; the promise of an
\* identifier gets one resolve or one reject, never two calls; a line that is
\* not JSON, is of another type, has no id, or names an identifier that is
\* unknown or already settled changes nothing; a result line for a pending
\* identifier resolves it and a timeout rejects it, each removing the key.
C28_SettledExactlyOnce ==
    /\ pendingSearches = {i \in SearchIds : settled[i].state = "waiting"}
    /\ searchTimers = pendingSearches
    /\ \A i \in SearchIds :
           /\ settled[i].calls <= 1
           /\ (settled[i].calls = 1)
                  <=> (settled[i].state \in {"resolved", "rejected"})
    /\ event[1] = "line" =>
           \/ /\ pendingSearches = pre.pend
              /\ settled = pre.sett
           \/ /\ event[2] = "search_results"
              /\ \E i \in pre.pend :
                     /\ pendingSearches = pre.pend \ {i}
                     /\ settled = [pre.sett EXCEPT ![i] =
                                       [state |-> "resolved", calls |-> 1]]
    /\ (event[1] = "line" /\ event[2] # "search_results") =>
           (pendingSearches = pre.pend /\ settled = pre.sett)
    /\ event[1] = "search_timeout" =>
           \E i \in pre.pend :
               /\ pendingSearches = pre.pend \ {i}
               /\ settled = [pre.sett EXCEPT ![i] =
                                 [state |-> "rejected", calls |-> 1]]

\* one request resolved by its line, one rejected by its timeout, one
\* pending, and a line for a settled identifier has just been ignored
C28_Witness ==
    /\ event = <<"line", "search_results">>
    /\ pendingSearches = pre.pend
    /\ Cardinality(pendingSearches) = 1
    /\ \E i, j \in SearchIds :
           /\ settled[i].state = "resolved"
           /\ settled[j].state = "rejected"

LastTurns(h, n) == SubSeq(h, Len(h) - n + 1, Len(h))

\* C25: when pushing the user turn makes the history longer than 20, what
\* is kept is the last 20 entries of the history with the user turn
\* appended, in their order: entry i of the result is entry i + (length - 20)
\* of that history, the user turn is the last one; up to 20 entries nothing
\* is dropped.
C25_KeepsLast20 ==
    (Heard /\ ~pre.busy /\ ~pre.paused) =>
        LET full == Append(pre.hist, Turn("user", "utterance", nUtter))
            h == conversationHistory
        IN  /\ h[Len(h)] = Turn("user", "utterance", nUtter)
            /\ IF Len(full) > HistoryLimit
               THEN /\ Len(h) = HistoryLimit
                    /\ \A i \in 1..HistoryLimit :
                           h[i] = full[i + Len(full) - HistoryLimit]
               ELSE h = full

\* an utterance found 25 entries: the 6 oldest were dropped
C25_Witness ==
    /\ Heard
    /\ Len(pre.hist) = 25
    /\ Len(conversationHistory) = HistoryLimit
    /\ conversationHistory[1].utt = 7
    /\ conversationHistory[HistoryLimit - 1].utt = 25

\* C27: a non-empty result list appends the search marker and then the
\* system message with the results and starts the summary generation on that
\* history; the summary is appended as an assistant turn and spoken only if
\* it has content and isMuted is false, otherwise nothing is appended or
\* spoken; a rejection of the summary generation, or of the summary's speech,
\* is answered with the "search failed" apology (unless muted) and leaves
\* the marker and the system message (and the summary, once appended) in
\* the history.
C27_SearchSummary ==
    /\ event = <<"search_resolved", "results">> =>
           /\ conversationHistory =
                  pre.hist \o <<Turn("assistant", "marker", transcript),
                                Turn("system", "results", transcript)>>
           /\ pc = "summarize"
           /\ out = <<>>
    /\ pc = "summarize" =>
           LastTurns(conversationHistory, 2)
               = <<Turn("assistant", "marker", transcript),
                   Turn("system", "results", transcript)>>
    /\ event[1] = "summary_resolved" =>
           /\ pre.pc = "summarize"
           /\ IF event[2] = "content" /\ ~pre.muted
              THEN /\ conversationHistory =
                          Append(pre.hist,
                                 Turn("assistant", "summary", transcript))
                   /\ out = <<Tts("summary")>>
                   /\ pc = "speak"
              ELSE /\ conversationHistory = pre.hist
                   /\ out = <<>>
                   /\ pc = "tools"
    /\ event[1] = "summary_rejected" =>
           /\ conversationHistory = pre.hist
           /\ isProcessingResponse
           /\ out = IF pre.muted THEN <<>> ELSE <<Tts("fail_apology")>>
    /\ event = <<"speak_rejected", "summary">> =>
           /\ conversationHistory = pre.hist
           /\ LastTurns(conversationHistory, 3)
                  = <<Turn("assistant", "marker", transcript),
                      Turn("system", "results", transcript),
                      Turn("assistant", "summary", transcript)>>
           /\ out = <<Tts("fail_apology")>>
           /\ isProcessingResponse

\* the speech of a summary has just failed and the apology is being spoken
C27_Witness ==
    /\ event = <<"speak_rejected", "summary">>
    /\ speaking = "fail_apology"
    /\ conversationHistory[Len(conversationHistory)].kind = "summary"
    /\ conversationHistory[Len(conversationHistory) - 1].role = "system"

\* C29: the acknowledgement of leave_meeting, completed or failed, is
\* followed by the LEAVE_MEETING signal, isPaused true and an armed timer.
C29_LeaveAlwaysSignals ==
    (event[1] \in {"speak_resolved", "speak_rejected"}
     /\ event[2] = "leave_ack") =>
        /\ Left
        /\ isPaused
        /\ leaveTimers = pre.timers + 1

\* a table token occupies the characters from i on, with no word character
\* before it and the end of the text, whitespace or a comma after it
StandsAlone(text, i, tok) ==
    /\ i + Len(tok) - 1 <= Len(text)
    /\ \A k \in 1..Len(tok) : text[i + k - 1] = tok[k]
    /\ i > 1 => text[i - 1] \notin WordChars
    /\ i + Len(tok) <= Len(text) => text[i + Len(tok)] \in {" ", ","}

\* the table entry whose token stands alone at i, or 0
EntryAt(text, i) ==
    IF \E k \in DOMAIN Abbreviations : StandsAlone(text, i, Abbreviations[k].tok)
    THEN CHOOSE k \in DOMAIN Abbreviations :
             StandsAlone(text, i, Abbreviations[k].tok)
    ELSE 0

RECURSIVE Expanded(_, _)
\* the text from i on with every token that stands alone replaced
Expanded(text, i) ==
    IF i > Len(text) THEN <<>>
    ELSE IF EntryAt(text, i) # 0
         THEN Abbreviations[EntryAt(text, i)].exp
                  \o Expanded(text, i + Len(Abbreviations[EntryAt(text, i)].tok))
         ELSE <<text[i]>> \o Expanded(text, i + 1)

\* C26: the processed text is the text with each table token replaced by
\* its expansion exactly where the token stands at word boundaries followed
\* by whitespace, a comma or the end, every other character kept; St inside
\* Stuart and St followed by a period stay, "123 Main St" becomes
\* "123 Main Street"; expanding the processed text again changes nothing.
C26_ExpandsAtBoundaries ==
    event[1] = "expanded" =>
        /\ ttsSent = Expanded(ttsText, 1)
        /\ expandAbbreviations(ttsSent) = ttsSent
        /\ (\A i \in 1..Len(ttsText) : EntryAt(ttsText, i) = 0)
               => ttsSent = ttsText
        /\ expandAbbreviations(<<"S", "t", "u", "a", "r", "t">>)
               = <<"S", "t", "u", "a", "r", "t">>
        /\ expandAbbreviations(<<"S", "t", ".", " ", "L", "o", "u", "i", "s">>)
               = <<"S", "t", ".", " ", "L", "o", "u", "i", "s">>
        /\ expandAbbreviations(
               <<"1", "2", "3", " ", "M", "a", "i", "n", " ", "S", "t">>)
               = <<"1", "2", "3", " ", "M", "a", "i", "n", " ", "S", "t", "r",
                   "e", "e", "t">>

\* "St," has been expanded to "Street,"
C26_Witness ==
    /\ event[1] = "expanded"
    /\ ttsText = <<"S", "t", ",">>
    /\ ttsSent = <<"S", "t", "r", "e", "e", "t", ",">>

\* C30: in the native bridge at most one paplay process is writing to the
\* output device at any time.
C30_OnePlaybackAtATime == Cardinality(Writing) <= 1

----------------------------------------------------------------------------

\* the synthesis requests a step issued, in order
TtsRequests(o) == SelectSeq(o, LAMBDA e : e[1] = "TTS")

C32_LeaveEndsSession ==
    /\ leaveTimers > 0 => isPaused
    /\ (pre.timers > 0 /\ pre.pc = "idle") =>
           /\ pc = "idle"
           /\ Speeches(out) = {}
           /\ Signals(out) = {}

\* the MUTED / UNMUTED signals of a step, in order
MuteSignals(o) ==
    SelectSeq(o, LAMBDA e : e \in {Signal("MUTED"), Signal("UNMUTED")})

\* the PAUSED / RESUMED / LEAVE_MEETING signals of a step, in order
PauseSignals(o) ==
    SelectSeq(o, LAMBDA e : e \in {Signal("PAUSED"), Signal("RESUMED"),
                                    Signal("LEAVE_MEETING")})

\* C33: the signal stream reflects the flags.  Both flags are false at the
\* start, with nothing emitted.  A step emits at most one signal of each
\* group.  MUTED is emitted only by a step that finds isMuted false and
\* leaves it true, UNMUTED only by one that finds it true and leaves it
\* false, and a step that emits neither leaves isMuted as it found it: the
\* two signals alternate, MUTED first, and isMuted is true exactly when the
\* last of them is MUTED.  A step that emits PAUSED or LEAVE_MEETING leaves
\* isPaused true, one that emits RESUMED leaves it false, and a step that
\* emits none of the three leaves isPaused as it found it: isPaused is true
\* exactly when the last of them is PAUSED or LEAVE_MEETING.
C33_SignalsReflectFlags ==
    /\ event[1] = "start" => (~isMuted /\ ~isPaused /\ out = <<>>)
    /\ Len(MuteSignals(out)) <= 1
    /\ Len(PauseSignals(out)) <= 1
    /\ MuteSignals(out) = <<>> => isMuted = pre.muted
    /\ MuteSignals(out) = <<Signal("MUTED")>> => (~pre.muted /\ isMuted)
    /\ MuteSignals(out) = <<Signal("UNMUTED")>> => (pre.muted /\ ~isMuted)
    /\ PauseSignals(out) = <<>> => isPaused = pre.paused
    /\ PauseSignals(out) = <<Signal("PAUSED")>> => isPaused
    /\ PauseSignals(out) = <<Signal("LEAVE_MEETING")>> => isPaused
    /\ PauseSignals(out) = <<Signal("RESUMED")>> => ~isPaused

\* unmute_self has just undone the mute_self of the same result, after a
\* cycle that paused and resumed
C33_Witness ==
    /\ Ran("unmute_self")
    /\ out = <<Signal("UNMUTED")>>
    /\ pre.muted
    /\ ~isMuted
    /\ ~isPaused
    /\ transcript = 2
    /\ result.tool_calls[1].name = "mute_self"

\* C34: isMuted, isPaused and conversationHistory change only during a
\* cycle.  A step that finds isProcessingResponse false leaves all three as
\* they were, unless it is the delivery of an utterance that starts a cycle:
\* that step sets isProcessingResponse, leaves the flags alone and pushes the
\* user turn (keeping the last 20 entries).  The speech-boundary, error and
\* stdin events and the forced-exit timer never change any of the three.
C34_SessionChangesOnlyInCycle ==
    /\ ~pre.busy =>
           \/ SessionKept
           \/ /\ Heard
              /\ ~pre.paused
              /\ isProcessingResponse
              /\ isMuted = pre.muted
              /\ isPaused = pre.paused
              /\ conversationHistory = PushUser(pre.hist, transcript)
    /\ event[1] \in {"speech_started", "speech_stopped", "error_message",
                      "ws_error", "line", "leave_timeout"} => SessionKept

\* between two cycles, muted by the first, a line of search results is read
C34_Witness ==
    /\ event = <<"line", "search_results">>
    /\ ~pre.busy
    /\ pc = "idle"
    /\ isMuted
    /\ Len(conversationHistory) = 1
    /\ nUtter = 1

\* C35: at most one parec process exists at any time, and once the process
\* has exited (close event, SIGINT, SIGTERM) cleanup has terminated every
\* parec process that was started.
C35_OneCaptureProcess ==
    /\ captures <= 1
    /\ exited => captures = 0

\* the chunks a process holds that could not be spawned
LostWith(p) ==
    IF paplay[p].state \in {"failed", "never_ran"}
    THEN Range(paplay[p].data) ELSE {}

\* C36: in the native bridge every audio delta is handed to a playback
\* process exactly once and in arrival order: the buffers written to the
\* processes, followed by the queue, are the deltas received, in order; a
\* delta that arrives while a playback is writing to the device is queued;
\* no delta is lost with a process that reports an error; and every queued
\* delta is eventually handed to a process.
C36_EveryChunkPlayedOnce ==
    /\ [](Handed(paplay) \o audioQueue = [c \in 1..Received |-> c])
    /\ [][(Received' = Received + 1 /\ Writing # {}) =>
              audioQueue' = Append(audioQueue, Received + 1)]_vars
    /\ [](\A p \in DOMAIN paplay : LostWith(p) = {})
    /\ \A c \in 1..MaxDeltas :
           (c \in Range(audioQueue)) ~> (c \in Range(Handed(paplay)))

====
